---- MODULE Spec2Model ----
(***************************************************************************)
(* Model of the fleet control tool aiorpc_service/ctl.py: the SSH based    *)
(* controls (stop, disable, enable, start, remove, deploy), the RPC based  *)
(* status probe and the part of main() that runs one of them under         *)
(* asyncio.run().                                                          *)
(*                                                                         *)
(* One command invocation is one behaviour.  The coroutine of the command  *)
(* is the "main" coroutine (pc); every coroutine handed to asyncio.gather  *)
(* is a task (tst/tstep), indexed by the fan-out it belongs to and by the  *)
(* position of its node in the node list.  Every await of a remote command *)
(* is a suspension point, so tasks interleave at the granularity of one    *)
(* remote command.                                                         *)
(***************************************************************************)
EXTENDS Integers, Sequences, FiniteSets, TLC

\* ------------------------------------------------------------------ bounds
NumNodes == 2       \* longest node list
MaxUploads == 1     \* largest --max-parallel-uploads
MaxConn == 2        \* largest connection limit of the configuration
MaxIdLen == 2       \* longest node identity, in characters
MaxTemplateLen == 3 \* longest file name of a cert path template, in symbols
MaxInvocations == 2 \* most command invocations in a row

\* One node more than the node lists of most commands name: the install that
\* is checked for progress runs on MaxTasks nodes.
MaxTasks == NumNodes + 1

Pos == 1..MaxTasks
Hosts == 1..MaxTasks
Fleet == 1..NumNodes

\* The fan-outs (one asyncio.gather each) and the remote commands of their tasks.
LifecyclePhases == {"stop", "disable", "enable", "start"}
Phases == LifecyclePhases \cup {"install", "remove"}

InstallSteps_UnitFirst ==
  << "mkdir_root", "tee_service", "mkdir_storage", "acquire", "copy",
     "bash_install", "chown", "chmod", "mkdir_secrets", "make_cert_and_key",
     "tee_cert", "tee_key", "tee_api_key_enc", "rm_temp", "daemon_reload" >>

InstallSteps ==
  << "mkdir_root", "mkdir_storage", "acquire", "copy", "bash_install", "chown",
     "chmod", "mkdir_secrets", "make_cert_and_key", "tee_cert", "tee_key",
     "tee_api_key_enc", "rm_temp", "tee_service", "daemon_reload" >>

RemoveSteps == << "rm_unit", "daemon_reload", "rm_root", "rm_storage" >>

Steps(ph) ==
  CASE ph = "install" -> InstallSteps
    [] ph = "remove"  -> RemoveSteps
    [] ph = "stop"    -> << "systemctl_stop" >>
    [] ph = "disable" -> << "systemctl_disable" >>
    [] ph = "enable"  -> << "systemctl_enable" >>
    [] ph = "start"   -> << "systemctl_start" >>

\* The fan-outs a command awaits, in order.
Plan_NoStop(c) ==
  CASE c = "install"   -> << "install", "enable", "start" >>
    [] c = "uninstall" -> << "disable", "remove" >>
    [] c = "status"    -> << >>
    [] OTHER           -> << c >>

Plan(c) ==
  CASE c = "install"   -> << "install", "enable", "start" >>
    [] c = "uninstall" -> << "disable", "stop", "remove" >>
    [] c = "status"    -> << >>
    [] OTHER           -> << c >>

ErrKinds == {"SubprocessError", "OtherError"}

VARIABLES
  cmd,        \* the function run under asyncio.run()
  pc,         \* position of the main coroutine
  pi,         \* index in Plan(cmd) of the fan-out the main coroutine is at
  inventory,  \* the node list: inventory[i] is the host of position i
  faulty,     \* positions whose remote session may fail a command
  tst,        \* tst[ph][i]: state of the task of fan-out ph for position i
  tstep,      \* tstep[ph][i]: index in Steps(ph) of the command the task is at
  gres,       \* gres[ph]: state of the future asyncio.gather returned
  exc,        \* the exception raised out of the command, or "none"
  remote,     \* remote[h]: the state of host h
  unit0,      \* unit0[h]: whether host h had a unit file when the command began
  sem,        \* value of upload_semaphore
  maxup,      \* max_parallel_uploads
  cfgCopy,    \* get_config_target_path() exists
  invFile,    \* get_inventory_path(): [exists, nodes]
  apiEnc,     \* api_enc_key of deploy(): the number of the key, 0 before get_key_enc()
  apiEncFile, \* the key in the local cfg.api_key_enc file, 0 for one of an earlier run
  keygens,    \* number of calls of get_key_enc()
  unreachable,\* positions whose RPC probe fails
  probe,      \* probe[i]: state of the probe of position i
  ready,      \* the positions whose probe has ended and is not yet yielded, in order
  reported,   \* the outcomes status() has logged, in order
  order,      \* the positions in the order their probes ended
  pool,       \* cfg.max_conn_per_node, cfg.max_conn_total and the pool's own default total
  localCert,  \* localCert[h]: number of the certificate file of host h, 0 for none
  cfgExists,  \* the config file of --config exists
  certFolder, \* the folder of cfg.ssl_cert_templ exists
  remote0,    \* remote when the command began
  invFile0,   \* invFile when the command began
  cert0,      \* localCert when the command began
  secrets,    \* local key files: [apiSecured, certSecured[h], tempKey[h]]
  arg,        \* the argument of the function under check
  ret,        \* its result
  invocations \* number of the command invocation, from 1

vars == << cmd, pc, pi, inventory, faulty, tst, tstep, gres, exc, remote, unit0,
           sem, maxup, cfgCopy, invFile, apiEnc, apiEncFile, keygens,
           unreachable, probe, ready, reported, order, pool, localCert, secrets,
           cfgExists, certFolder, remote0, invFile0, cert0, arg, ret,
           invocations >>

deployVars == << sem, maxup, apiEnc, apiEncFile, keygens, localCert, secrets >>
statusVars == << unreachable, probe, ready, reported, order >>
\* What no step of a command changes.
auxVars    == << pool, cfgExists, certFolder, remote0, invFile0, cert0, arg, ret,
                 invocations >>
localVars  == << cfgCopy, invFile >>

N == Len(inventory)
Active == 1..N

\* ------------------------------------------------------------ remote hosts
Absent == [unit |-> FALSE, root |-> FALSE, storage |-> FALSE,
           enabled |-> FALSE, active |-> FALSE, apikey |-> -1, temp |-> FALSE]

Installed(en, act) ==
  [unit |-> TRUE, root |-> TRUE, storage |-> TRUE,
   enabled |-> en, active |-> act, apikey |-> 0, temp |-> FALSE]

\* rm --force: a missing operand is not an error.
RmForce_NoForce(present) == IF present THEN "ok" ELSE "SubprocessError"
RmForce(present) == "ok"

\* What the command itself answers on a host in state r when the session works:
\* systemctl exits nonzero for a unit it does not know.
Semantics(s, r) ==
  CASE s \in {"systemctl_stop", "systemctl_disable", "systemctl_enable", "systemctl_start"}
         -> IF r.unit THEN "ok" ELSE "SubprocessError"
    [] s = "rm_unit" -> RmForce(r.unit)
    [] OTHER -> "ok"

\* The state of the host after command s succeeded.
Effect(s, r, key) ==
  CASE s = "systemctl_stop"    -> [r EXCEPT !.active = FALSE]
    [] s = "systemctl_start"   -> [r EXCEPT !.active = TRUE]
    [] s = "systemctl_enable"  -> [r EXCEPT !.enabled = TRUE]
    [] s = "systemctl_disable" -> [r EXCEPT !.enabled = FALSE]
    [] s = "rm_unit"           -> [r EXCEPT !.unit = FALSE]
    [] s = "rm_root"           -> [r EXCEPT !.root = FALSE]
    [] s = "rm_storage"        -> [r EXCEPT !.storage = FALSE]
    [] s = "mkdir_root"        -> [r EXCEPT !.root = TRUE]
    [] s = "mkdir_storage"     -> [r EXCEPT !.storage = TRUE]
    [] s = "copy"              -> [r EXCEPT !.temp = TRUE]
    [] s = "tee_api_key_enc"   -> [r EXCEPT !.apikey = key]
    [] s = "rm_temp"           -> [r EXCEPT !.temp = FALSE]
    [] s = "tee_service"       -> [r EXCEPT !.unit = TRUE]
    [] OTHER -> r

\* The results the step s of position i can give: what the command answers, or,
\* on a faulty position, any error the session raises.
Results(s, i, r) ==
  {Semantics(s, r)} \cup (IF i \in faulty THEN ErrKinds ELSE {})

\* get_key_enc(): a fresh key pair; the k-th call returns key number k.
get_key_enc(calls) == calls + 1

\* The encrypted API key runner() pushes to the node of position i.
PushedKey_PerNode(i, shared) == get_key_enc(i)
PushedKey(i, shared) == shared

\* make_cert_and_key(): a new key and a new self-signed certificate; old is the
\* number of the certificate that was at the path.
make_cert_and_key(old) == old + 1

\* runner(): make_secure() and make_cert_and_key() on the node's cert path.
ProvisionCert(old) == make_cert_and_key(old)

\* No make_secure() call yet and no temporary key file.
NoSecrets == [apiSecured |-> FALSE,
              certSecured |-> [h \in Hosts |-> FALSE],
              tempKey |-> [h \in Hosts |-> FALSE]]

\* ------------------------------------------------------------------ gather
\* return_exceptions of the asyncio.gather call of fan-out ph.
ReturnExceptions_Never(ph) == FALSE
ReturnExceptions(ph) == ph = "remove"

Finished(st) == st \in {"ok", "fail"}

\* The future of gather after the task of a position ended with res, the tasks
\* then being in states nt: the first exception is set on it at once unless
\* return_exceptions, otherwise it is resolved when the last task has ended.
GatherDone(ph, g, nt, res) ==
  IF g # "pending" THEN g
  ELSE IF res # "ok" /\ ~ReturnExceptions(ph) THEN res
  ELSE IF \A j \in Active : Finished(nt[j]) THEN "ok"
  ELSE "pending"

\* except subprocess.SubprocessError: pass
Swallowed_Nothing(kind) == FALSE
Swallowed(kind) == kind = "SubprocessError"

\* The exceptions of fan-out ph the command catches.
Caught_Always(ph, kind) == TRUE
Caught(ph, kind) ==
  cmd = "uninstall" /\ ph \in {"disable", "stop"} /\ Swallowed(kind)

\* Where the main coroutine goes after its last fan-out.
Post(c) ==
  CASE c = "install"   -> "write_inventory"
    [] c = "uninstall" -> "unlink"
    [] OTHER           -> "done"

\* The main coroutine calls asyncio.gather for fan-out ph: one task per node.
Fanout(ph) ==
  /\ pc = "call"
  /\ Plan(cmd)[pi] = ph
  /\ tst' = [tst EXCEPT ![ph] = [i \in Pos |-> IF i \in Active THEN "run" ELSE "none"]]
  /\ gres' = [gres EXCEPT ![ph] = IF N = 0 THEN "ok" ELSE "pending"]
  /\ pc' = "await"
  /\ UNCHANGED << cmd, pi, inventory, faulty, tstep, exc, remote, unit0, auxVars >>
  /\ UNCHANGED << deployVars, statusVars, localVars >>

\* A task stands at a free semaphore: acquire() of a free asyncio.Semaphore
\* returns without suspending, and a waiter woken by release() is run before
\* the callbacks scheduled after it, so the task takes the slot before the
\* main coroutine is resumed.
SlotReady ==
  \E i \in Active :
    /\ tst["install"][i] = "run"
    /\ InstallSteps[tstep["install"][i]] = "acquire"
    /\ sem > 0

\* The main coroutine resumes from await asyncio.gather(...) of fan-out ph.
Await(ph) ==
  /\ pc = "await"
  /\ ~SlotReady
  /\ Plan(cmd)[pi] = ph
  /\ gres[ph] \notin {"none", "pending"}
  /\ IF gres[ph] = "ok" \/ Caught(ph, gres[ph])
       THEN /\ pc' = IF pi < Len(Plan(cmd)) THEN "call" ELSE Post(cmd)
            /\ pi' = IF pi < Len(Plan(cmd)) THEN pi + 1 ELSE pi
            /\ exc' = exc
       ELSE /\ pc' = "raised"
            /\ pi' = pi
            /\ exc' = gres[ph]
  /\ UNCHANGED << cmd, inventory, faulty, tst, tstep, gres, remote, unit0, auxVars >>
  /\ UNCHANGED << deployVars, statusVars, localVars >>

\* make_secure(): the path is owner-only from now on; was tells whether it was.
make_secure_Skip(was) == was
make_secure(was) == TRUE

\* unlink() of the temporary key file key.<node>.tempo.
UnlinkKey_Keep(exists) == exists
UnlinkKey(exists) == FALSE

\* The local files after step s of the runner of host h succeeded, with the
\* statements that follow it up to the next await: make_secure() on the cert
\* and temporary key paths before make_cert_and_key, which writes the key, and
\* ssl_key_file.unlink() once the encrypted API key is pushed.
LocalEffect(s, sec, h) ==
  CASE s = "mkdir_secrets" ->
         [sec EXCEPT !.certSecured[h] = make_secure(@)]
    [] s = "make_cert_and_key" ->
         [sec EXCEPT !.tempKey[h] = TRUE]
    [] s = "tee_api_key_enc" ->
         [sec EXCEPT !.tempKey[h] = UnlinkKey(@)]
    [] OTHER -> sec

\* How the task goes on when its command s ended with res, key telling whether
\* the temporary key file exists: ssl_key_file.open("rb") after the cert is
\* pushed and ssl_key_file.unlink() after the API key is pushed raise
\* FileNotFoundError for a missing file.
LocalResult(s, res, key) ==
  IF res = "ok" /\ s \in {"tee_cert", "tee_api_key_enc"} /\ ~key
    THEN "OtherError" ELSE res

\* The free slots of the semaphore, sm before, when a task leaves step s with
\* result res: "async with upload_semaphore" releases on every exit of its body.
Release_OnSuccess(s, res, sm) == IF s = "copy" /\ res = "ok" THEN sm + 1 ELSE sm
Release(s, res, sm) == IF s = "copy" THEN sm + 1 ELSE sm

\* The task of fan-out ph for position i ends the remote command it is at.
RunCmd(ph, i) ==
  /\ pc # "exited"
  /\ i \in Active
  /\ tst[ph][i] = "run"
  /\ LET s    == Steps(ph)[tstep[ph][i]]
         h    == inventory[i]
         last == tstep[ph][i] = Len(Steps(ph))
     IN /\ s # "acquire"
        /\ \E res \in Results(s, i, remote[h]) :
             LET out == LocalResult(s, res, secrets.tempKey[h])
                 nt == [tst[ph] EXCEPT ![i] =
                         IF out # "ok" THEN "fail" ELSE IF last THEN "ok" ELSE "run"]
             IN /\ tst' = [tst EXCEPT ![ph] = nt]
                /\ tstep' = [tstep EXCEPT ![ph][i] = IF out = "ok" /\ ~last THEN @ + 1 ELSE @]
                /\ remote' = IF res = "ok"
                               THEN [remote EXCEPT ![h] = Effect(s, @, PushedKey(i, apiEnc))]
                               ELSE remote
                /\ gres' = [gres EXCEPT ![ph] = GatherDone(ph, @, nt, out)]
                /\ sem' = Release(s, res, sem)
                /\ localCert' = IF res = "ok" /\ s = "make_cert_and_key"
                                  THEN [localCert EXCEPT ![h] = ProvisionCert(@)]
                                  ELSE localCert
                /\ secrets' = IF res = "ok" THEN LocalEffect(s, secrets, h) ELSE secrets
  /\ UNCHANGED << cmd, pc, pi, inventory, faulty, exc, unit0, auxVars >>
  /\ UNCHANGED << maxup, apiEnc, apiEncFile, keygens, statusVars, localVars >>

stop    == Fanout("stop") \/ Await("stop") \/ \E i \in Pos : RunCmd("stop", i)
disable == Fanout("disable") \/ Await("disable") \/ \E i \in Pos : RunCmd("disable", i)
enable  == Fanout("enable") \/ Await("enable") \/ \E i \in Pos : RunCmd("enable", i)
start   == Fanout("start") \/ Await("start") \/ \E i \in Pos : RunCmd("start", i)

\* asyncio.run(): the main coroutine has returned or raised; every task still
\* running is cancelled and the loop is closed.
AsyncioRunExit ==
  /\ pc \in {"done", "raised"}
  /\ ~SlotReady
  /\ pc' = "exited"
  /\ tst' = [ph \in Phases |-> [i \in Pos |->
               IF tst[ph][i] = "run" THEN "cancelled" ELSE tst[ph][i]]]
  /\ sem' = sem + Cardinality({i \in Active : tst["install"][i] = "run"
                                 /\ InstallSteps[tstep["install"][i]] = "copy"})
  /\ UNCHANGED << cmd, pi, inventory, faulty, tstep, gres, exc, remote, unit0, auxVars >>
  /\ UNCHANGED << maxup, apiEnc, apiEncFile, keygens, localCert, secrets, statusVars, localVars >>

\* ------------------------------------------------------------------ remove
\* path.exists() after "if path.exists(): path.unlink()".
UnlinkIfExists_Keep(exists) == exists
UnlinkIfExists(exists) == FALSE

\* remove() starts with disable().
RemoveBegin ==
  /\ pc = "begin"
  /\ cmd = "uninstall"
  /\ pc' = "call"
  /\ UNCHANGED << cmd, pi, inventory, faulty, tst, tstep, gres, exc, remote, unit0, auxVars >>
  /\ UNCHANGED << deployVars, statusVars, localVars >>

\* remove(): the local config copy and the inventory are deleted.
RemoveUnlink ==
  /\ pc = "unlink"
  /\ cfgCopy' = UnlinkIfExists(cfgCopy)
  /\ invFile' = [invFile EXCEPT !.exists = UnlinkIfExists(@)]
  /\ pc' = "done"
  /\ UNCHANGED << cmd, pi, inventory, faulty, tst, tstep, gres, exc, remote, unit0, auxVars >>
  /\ UNCHANGED << deployVars, statusVars >>

remove_runner ==
  Fanout("remove") \/ Await("remove") \/ \E i \in Pos : RunCmd("remove", i)

remove == RemoveBegin \/ disable \/ stop \/ remove_runner \/ RemoveUnlink

\* ------------------------------------------------------------------ deploy
\* asyncio.Semaphore(max_parallel_uploads if max_parallel_uploads else len(nodes))
SemaphoreInit_Unlimited(L, n) == n
SemaphoreInit(L, n) == IF L # 0 THEN L ELSE n

\* deploy(): the config copy, the semaphore, the secrets directory and
\* make_secure() on the two API key paths.
DeployPrepare ==
  /\ pc = "begin"
  /\ cmd = "install"
  /\ cfgCopy' = TRUE
  /\ sem' = SemaphoreInit(maxup, N)
  /\ secrets' = [secrets EXCEPT !.apiSecured = make_secure(@)]
  /\ pc' = "keygen"
  /\ UNCHANGED << cmd, pi, inventory, faulty, tst, tstep, gres, exc, remote, unit0, auxVars >>
  /\ UNCHANGED << maxup, apiEnc, apiEncFile, keygens, localCert, statusVars, invFile >>

\* deploy(): get_key_enc() and the write of the key and of its encrypted form.
DeployKeys ==
  /\ pc = "keygen"
  /\ apiEnc' = get_key_enc(keygens)
  /\ apiEncFile' = get_key_enc(keygens)
  /\ keygens' = keygens + 1
  /\ pc' = "call"
  /\ UNCHANGED << cmd, pi, inventory, faulty, tst, tstep, gres, exc, remote, unit0, auxVars >>
  /\ UNCHANGED << sem, maxup, localCert, secrets, statusVars, localVars >>

\* runner(): async with upload_semaphore, entered when a slot is free.
Acquire(i) ==
  /\ pc # "exited"
  /\ i \in Active
  /\ tst["install"][i] = "run"
  /\ InstallSteps[tstep["install"][i]] = "acquire"
  /\ sem > 0
  /\ sem' = sem - 1
  /\ tstep' = [tstep EXCEPT !["install"][i] = @ + 1]
  /\ UNCHANGED << cmd, pc, pi, inventory, faulty, tst, gres, exc, remote, unit0, auxVars >>
  /\ UNCHANGED << maxup, apiEnc, apiEncFile, keygens, localCert, secrets, statusVars, localVars >>

deploy_runner ==
  \/ Fanout("install")
  \/ Await("install")
  \/ \E i \in Pos : Acquire(i)
  \/ \E i \in Pos : RunCmd("install", i)

\* The node list the inventory file holds after fd.write() of the inventory.
InventoryContent_Partial(inv) == SubSeq(inv, 1, Len(inv) - 1)
InventoryContent(inv) == inv

\* deploy(): the node list is written to the inventory file.
DeployInventory ==
  /\ pc = "write_inventory"
  /\ invFile' = [exists |-> TRUE, nodes |-> InventoryContent(inventory)]
  /\ pc' = "done"
  /\ UNCHANGED << cmd, pi, inventory, faulty, tst, tstep, gres, exc, remote, unit0, auxVars >>
  /\ UNCHANGED << deployVars, statusVars, cfgCopy >>

deploy ==
  DeployPrepare \/ DeployKeys \/ deploy_runner \/ enable \/ start \/ DeployInventory

\* ------------------------------------------------------------------ status
\* get_certificates(): "if not certs_folder.is_dir(): raise RuntimeError".
CertsFolderMissing(isDir) == ~isDir

\* check_node(): whether sys.ping("test") answered 'test'.
check_node(reply) == IF reply = "test" THEN "True" ELSE "False"

\* What the probe of position i yields: the value of check_node(), or the
\* exception of the connection or of the call, captured as the result.
ProbeResults(i) ==
  IF i \in unreachable THEN {"error"} ELSE {check_node(reply) : reply \in {"test", "other"}}

\* get_http_connection_pool(ssl_certs, api_key, cfg.max_conn_per_node, port=...):
\* the limits the pool of status() works with.  max_conn_total is not passed,
\* so the pool keeps its default.
PoolPerNode(c) == c.perNode
PoolTotal(c) == c.dflt

\* The positions that hold a connection, and those that hold one to host h.
Conns == {i \in Active : probe[i] = "conn"}
ConnsTo(h) == {i \in Conns : inventory[i] = h}

\* The line status() logs for a result: the isinstance(res, Exception) branch
\* and the RUN / NOT RUN branch.
StatusLine_NoIsinstance(res) == IF res = "False" THEN "NOT RUN" ELSE "RUN"
StatusLine(res) ==
  IF res = "error" THEN "error" ELSE IF res = "True" THEN "RUN" ELSE "NOT RUN"

\* status(): the pool is opened, max(map(len, nodes)) is taken (a ValueError
\* for an empty list) and rpc_map() starts one probe per node.
StatusBegin ==
  /\ pc = "begin"
  /\ cmd = "status"
  /\ IF CertsFolderMissing(certFolder)
       THEN pc' = "raised" /\ exc' = "RuntimeError" /\ probe' = probe
       ELSE IF N = 0
       THEN pc' = "raised" /\ exc' = "ValueError" /\ probe' = probe
       ELSE /\ pc' = "loop"
            /\ exc' = exc
            /\ probe' = [i \in Pos |-> IF i \in Active THEN "run" ELSE "none"]
  /\ UNCHANGED << cmd, pi, inventory, faulty, tst, tstep, gres, remote, unit0, auxVars >>
  /\ UNCHANGED << deployVars, unreachable, ready, reported, order, localVars >>

\* pool.connection(node): the probe of position i gets a connection when the
\* limits of the pool allow one more.
PoolConnect(i) ==
  /\ pc # "exited"
  /\ probe[i] = "run"
  /\ Cardinality(ConnsTo(inventory[i])) < PoolPerNode(pool)
  /\ Cardinality(Conns) < PoolTotal(pool)
  /\ probe' = [probe EXCEPT ![i] = "conn"]
  /\ UNCHANGED << cmd, pc, pi, inventory, faulty, tst, tstep, gres, exc, remote, unit0, auxVars >>
  /\ UNCHANGED << deployVars, unreachable, ready, reported, order, localVars >>

\* rpc_map(): the probe of position i ends, its connection is given back and
\* its result is queued.
rpc_map(i) ==
  /\ pc # "exited"
  /\ probe[i] = "conn"
  /\ \E res \in ProbeResults(i) : probe' = [probe EXCEPT ![i] = res]
  /\ ready' = Append(ready, i)
  /\ order' = Append(order, i)
  /\ UNCHANGED << cmd, pc, pi, inventory, faulty, tst, tstep, gres, exc, remote, unit0, auxVars >>
  /\ UNCHANGED << deployVars, unreachable, reported, localVars >>

\* The result the loop of status() handles next, q being the results rpc_map()
\* has ready: they are taken one by one as they come.
NextResult_InputOrder(q) ==
  CHOOSE i \in {q[k] : k \in 1..Len(q)} : \A k \in 1..Len(q) : i <= q[k]
NextResult(q) == Head(q)

Without(q, i) == SelectSeq(q, LAMBDA x : x # i)

\* status(): one iteration of "async for node_name, res in rpc_map(...)".
StatusReport ==
  /\ pc = "loop"
  /\ ready # << >>
  /\ reported' = Append(reported, [node |-> inventory[NextResult(ready)],
                                    line |-> StatusLine(probe[NextResult(ready)])])
  /\ ready' = Without(ready, NextResult(ready))
  /\ UNCHANGED << cmd, pc, pi, inventory, faulty, tst, tstep, gres, exc, remote, unit0, auxVars >>
  /\ UNCHANGED << deployVars, unreachable, probe, order, localVars >>

\* status(): rpc_map() is exhausted, the pool is closed and status() returns.
StatusEnd ==
  /\ pc = "loop"
  /\ ready = << >>
  /\ \A i \in Active : probe[i] \notin {"run", "conn"}
  /\ pc' = "done"
  /\ UNCHANGED << cmd, pi, inventory, faulty, tst, tstep, gres, exc, remote, unit0, auxVars >>
  /\ UNCHANGED << deployVars, statusVars, localVars >>

status ==
  \/ StatusBegin
  \/ \E i \in Pos : PoolConnect(i)
  \/ \E i \in Pos : rpc_map(i)
  \/ StatusReport
  \/ StatusEnd

\* main(): a lifecycle command starts with its only fan-out.
Begin ==
  /\ pc = "begin"
  /\ cmd \in LifecyclePhases
  /\ pc' = "call"
  /\ UNCHANGED << cmd, pi, inventory, faulty, tst, tstep, gres, exc, remote, unit0, auxVars >>
  /\ UNCHANGED << deployVars, statusVars, localVars >>

\* ------------------------------------------------------------ initial states
Inventories == {[i \in 1..k |-> i] : k \in 0..NumNodes}

\* A host that lost its unit file but kept its directories.
NoUnit == [Installed(FALSE, FALSE) EXCEPT !.unit = FALSE]

HostStates == {Installed(TRUE, TRUE), NoUnit}

\* The hosts of the fleet in states of S, every other host without agent.
FleetIn(S) ==
  {r \in [Hosts -> S \cup {Absent}] :
     \A h \in Hosts : IF h \in Fleet THEN r[h] \in S ELSE r[h] = Absent}

\* The limits of the configuration and the default total of the pool.
PoolConfigs ==
  [perNode : 1..MaxConn, cfgTotal : 1..MaxConn, dflt : 1..(MaxConn + 1)]

\* The values of the variables a command does not use.
InitAux ==
  /\ invocations = 1
  /\ cfgExists = TRUE
  /\ certFolder = TRUE
  /\ order = << >>
  /\ arg = 0
  /\ ret = 0

\* The record of the state the command began in.
InitHistory ==
  /\ remote0 = remote
  /\ invFile0 = invFile
  /\ cert0 = localCert

\* The state of a command c before its first step, its position apart.
InitTasksOn(c, lists) ==
  /\ cmd = c
  /\ pi = 1
  /\ inventory \in lists
  /\ faulty \in SUBSET {i \in 1..Len(inventory) : remote[inventory[i]] # NoUnit}
  /\ tst = [ph \in Phases |-> [i \in Pos |-> "none"]]
  /\ tstep = [ph \in Phases |-> [i \in Pos |-> 1]]
  /\ gres = [ph \in Phases |-> "none"]
  /\ exc = "none"
  /\ unit0 = [h \in Hosts |-> remote[h].unit]
  /\ sem = 0
  /\ apiEnc = 0
  /\ keygens = 0
  /\ unreachable = {}
  /\ probe = [i \in Pos |-> "none"]
  /\ ready = << >>
  /\ reported = << >>

InitTasks(c) == InitTasksOn(c, Inventories)

InitCommon(c) ==
  /\ pc = "begin"
  /\ InitTasks(c)

\* start, stop, enable or disable on a fleet installed earlier.
InitLifecycle ==
  /\ remote \in FleetIn(HostStates)
  /\ \E c \in LifecyclePhases : InitCommon(c)
  /\ maxup = 0
  /\ cfgCopy = TRUE
  /\ invFile = [exists |-> TRUE, nodes |-> inventory]
  /\ apiEncFile = 0
  /\ pool = [perNode |-> 1, cfgTotal |-> 1, dflt |-> 1]
  /\ localCert = [h \in Hosts |-> 1]
  /\ secrets = NoSecrets
  /\ InitAux
  /\ InitHistory

NextLifecycle == Begin \/ stop \/ disable \/ enable \/ start \/ AsyncioRunExit

SpecLifecycle == InitLifecycle /\ [][NextLifecycle]_vars

\* uninstall of the fleet of the inventory file.
InitRemove ==
  /\ remote \in FleetIn(HostStates)
  /\ InitCommon("uninstall")
  /\ maxup = 0
  /\ cfgCopy \in BOOLEAN
  /\ invFile = [exists |-> TRUE, nodes |-> inventory]
  /\ apiEncFile = 0
  /\ pool = [perNode |-> 1, cfgTotal |-> 1, dflt |-> 1]
  /\ localCert = [h \in Hosts |-> 1]
  /\ secrets = NoSecrets
  /\ InitAux
  /\ InitHistory

NextRemove == remove \/ AsyncioRunExit

SpecRemove == InitRemove /\ [][NextRemove]_vars

\* install on hosts that carry no agent yet; when an earlier install left its
\* config copy, it also left the inventory and the certificate of host 1.
InitDeploy ==
  /\ remote = [h \in Hosts |-> Absent]
  /\ InitCommon("install")
  /\ maxup \in 0..MaxUploads
  /\ cfgCopy \in BOOLEAN
  /\ invFile = [exists |-> cfgCopy, nodes |-> IF cfgCopy THEN << 1 >> ELSE << >>]
  /\ apiEncFile = 0
  /\ pool = [perNode |-> 1, cfgTotal |-> 1, dflt |-> 1]
  /\ localCert = [h \in Hosts |-> IF cfgCopy /\ h = 1 THEN 1 ELSE 0]
  /\ secrets = NoSecrets
  /\ InitAux
  /\ InitHistory

NextDeploy == deploy \/ AsyncioRunExit

SpecDeploy == InitDeploy /\ [][NextDeploy]_vars

\* Node lists of one node up to MaxTasks nodes.
FairInventories == {[i \in 1..k |-> i] : k \in 1..MaxTasks}

\* install of up to MaxTasks nodes, the session of at most one of them failing.
InitDeployFair ==
  /\ remote = [h \in Hosts |-> Absent]
  /\ pc = "begin"
  /\ InitTasksOn("install", FairInventories)
  /\ Cardinality(faulty) <= 1
  /\ maxup \in 0..MaxUploads
  /\ cfgCopy = FALSE
  /\ invFile = [exists |-> FALSE, nodes |-> << >>]
  /\ apiEncFile = 0
  /\ pool = [perNode |-> 1, cfgTotal |-> 1, dflt |-> 1]
  /\ localCert = [h \in Hosts |-> 0]
  /\ secrets = NoSecrets
  /\ InitAux
  /\ InitHistory

\* install when every remote command and every upload returns and the event
\* loop goes on running what is ready: some step is taken while one is possible,
\* and as a behaviour has finitely many steps no ready task is passed over for
\* ever.
SpecDeployFair == InitDeployFair /\ [][NextDeploy]_vars /\ WF_vars(NextDeploy)

\* Every node list, those that name a host more than once included.
AnyInventories == UNION {[1..k -> Fleet] : k \in 0..NumNodes}

\* install, its sessions working, on any node list.
InitDeployShared ==
  /\ remote = [h \in Hosts |-> Absent]
  /\ pc = "begin"
  /\ InitTasksOn("install", AnyInventories)
  /\ faulty = {}
  /\ maxup \in 0..MaxUploads
  /\ cfgCopy = FALSE
  /\ invFile = [exists |-> FALSE, nodes |-> << >>]
  /\ apiEncFile = 0
  /\ pool = [perNode |-> 1, cfgTotal |-> 1, dflt |-> 1]
  /\ localCert = [h \in Hosts |-> 0]
  /\ secrets = NoSecrets
  /\ InitAux
  /\ InitHistory

SpecDeployShared == InitDeployShared /\ [][NextDeploy]_vars

\* status of the fleet of the inventory file.
InitStatus ==
  /\ remote \in FleetIn({Installed(TRUE, TRUE)})
  /\ inventory \in Inventories
  /\ cmd = "status"
  /\ pc = "begin"
  /\ pi = 1
  /\ faulty = {}
  /\ tst = [ph \in Phases |-> [i \in Pos |-> "none"]]
  /\ tstep = [ph \in Phases |-> [i \in Pos |-> 1]]
  /\ gres = [ph \in Phases |-> "none"]
  /\ exc = "none"
  /\ unit0 = [h \in Hosts |-> remote[h].unit]
  /\ sem = 0
  /\ maxup = 0
  /\ apiEnc = 0
  /\ apiEncFile = 0
  /\ keygens = 0
  /\ cfgCopy = TRUE
  /\ invFile = [exists |-> TRUE, nodes |-> inventory]
  /\ unreachable \in SUBSET (1..Len(inventory))
  /\ probe = [i \in Pos |-> "none"]
  /\ ready = << >>
  /\ reported = << >>
  /\ pool \in PoolConfigs
  /\ localCert = [h \in Hosts |-> 1]
  /\ secrets = NoSecrets
  /\ InitAux
  /\ InitHistory

NextStatus == status \/ AsyncioRunExit

SpecStatus == InitStatus /\ [][NextStatus]_vars

\* -------------------------------------------------------------------- main
\* get_config(): "if path is None or not path.exists(): raise FileExistsError".
ConfigMissing_Never(exists) == FALSE
ConfigMissing(exists) == ~exists

\* read_inventory(get_inventory_path()) raises: open() of a file that does
\* not exist. install reads the file of --inventory instead.
InventoryMissing_Never(c, file) == FALSE
InventoryMissing(c, file) == c # "install" /\ ~file.exists

\* main() up to asyncio.run(): the configuration is read, then the inventory,
\* which install takes from --inventory (given) and every other subcommand from
\* the inventory file.
main ==
  /\ pc = "main"
  /\ IF ConfigMissing(cfgExists)
       THEN pc' = "raised" /\ exc' = "FileExistsError" /\ inventory' = inventory
       ELSE IF InventoryMissing(cmd, invFile)
       THEN pc' = "raised" /\ exc' = "FileNotFoundError" /\ inventory' = inventory
       ELSE /\ pc' = "begin"
            /\ exc' = exc
            /\ inventory' = IF cmd = "install" THEN inventory ELSE invFile.nodes
  /\ UNCHANGED << cmd, pi, faulty, tst, tstep, gres, remote, unit0,
                  deployVars, statusVars, localVars, auxVars >>

\* The subcommands of main(), and enable() and disable() called on their own.
Subcommands == {"install", "start", "stop", "uninstall", "status"}
Commands == Subcommands \cup {"enable", "disable"}

\* An installed host, its two toggles in any combination.
LifecycleStates == {Installed(en, act) : en, act \in BOOLEAN}

\* Every command on a fleet whose sessions work: install on hosts that carry
\* no agent, the others on hosts installed earlier.
InitMain ==
  /\ \E c \in Commands :
       /\ remote \in (IF c = "install" THEN [Hosts -> {Absent}]
                      ELSE IF c = "status" THEN FleetIn({Installed(TRUE, TRUE)})
                      ELSE FleetIn(LifecycleStates))
       /\ InitTasks(c)
       /\ pc = (IF c \in Subcommands THEN "main" ELSE "begin")
       /\ cfgCopy = (c # "install")
       /\ invFile = (IF c = "install" THEN [exists |-> FALSE, nodes |-> << >>]
                     ELSE [exists |-> TRUE, nodes |-> inventory])
       /\ localCert = [h \in Hosts |-> IF c = "install" THEN 0 ELSE 1]
       /\ secrets = NoSecrets
       /\ cfgExists \in (IF c \in Subcommands THEN BOOLEAN ELSE {TRUE})
       /\ certFolder \in (IF c = "status" THEN BOOLEAN ELSE {TRUE})
  /\ faulty = {}
  /\ maxup = 0
  /\ apiEncFile = 0
  /\ pool = [perNode |-> 1, cfgTotal |-> 1, dflt |-> 1]
  /\ order = << >>
  /\ arg = 0
  /\ ret = 0
  /\ invocations = 1
  /\ InitHistory

NextMain ==
  \/ main
  \/ Begin \/ stop \/ disable \/ enable \/ start
  \/ remove
  \/ deploy
  \/ status
  \/ AsyncioRunExit

SpecMain == InitMain /\ [][NextMain]_vars

\* ---------------------------------------------------------------- sessions
\* The next invocation of the program: subcommand c, and for install the node
\* list given of --inventory. What the invocation before left on the hosts and
\* in the local files stays; the tasks and the event loop are new.
Invoke(c, given) ==
  /\ pc = "exited"
  /\ invocations < MaxInvocations
  /\ invocations' = invocations + 1
  /\ cmd' = c
  /\ pc' = "main"
  /\ pi' = 1
  /\ inventory' = IF c = "install" THEN given ELSE << >>
  /\ faulty' = {}
  /\ tst' = [ph \in Phases |-> [i \in Pos |-> "none"]]
  /\ tstep' = [ph \in Phases |-> [i \in Pos |-> 1]]
  /\ gres' = [ph \in Phases |-> "none"]
  /\ exc' = "none"
  /\ unit0' = [h \in Hosts |-> remote[h].unit]
  /\ sem' = 0
  /\ unreachable' = {}
  /\ probe' = [i \in Pos |-> "none"]
  /\ ready' = << >>
  /\ reported' = << >>
  /\ order' = << >>
  /\ secrets' = [NoSecrets EXCEPT !.tempKey = secrets.tempKey]
  /\ remote0' = remote
  /\ invFile0' = invFile
  /\ cert0' = localCert
  /\ UNCHANGED << remote, maxup, cfgCopy, invFile, apiEnc, apiEncFile, keygens,
                  pool, localCert, cfgExists, certFolder, arg, ret >>

NextInvocation ==
  \E c \in Subcommands :
    \E given \in (IF c = "install" THEN Inventories ELSE {<< >>}) : Invoke(c, given)

\* The hosts a node list names.
Named(list) == {list[i] : i \in 1..Len(list)}

\* Invocations in a row, every session working, from a fleet that is either
\* installed, its node list in the inventory file, or not installed.
InitSession ==
  /\ \E list \in Inventories :
       /\ invFile = [exists |-> list # << >>, nodes |-> list]
       /\ remote = [h \in Hosts |->
                      IF h \in Named(list) THEN Installed(TRUE, TRUE) ELSE Absent]
       /\ localCert = [h \in Hosts |-> IF h \in Named(list) THEN 1 ELSE 0]
  /\ cfgCopy = invFile.exists
  /\ \E c \in Subcommands :
       InitTasksOn(c, IF c = "install" THEN Inventories ELSE {<< >>})
  /\ pc = "main"
  /\ faulty = {}
  /\ maxup = 0
  /\ apiEncFile = 0
  /\ pool = [perNode |-> 1, cfgTotal |-> 1, dflt |-> 1]
  /\ secrets = NoSecrets
  /\ InitAux
  /\ InitHistory

NextSession == NextMain \/ NextInvocation

SpecSession == InitSession /\ [][NextSession]_vars

\* ------------------------------------------------------------ inventory file
\* Texts are sequences of characters; "\n" is the line break.
Chars == {"a", "b"}
Identities == UNION {[1..k -> Chars] : k \in 0..MaxIdLen}
InventoryLists == UNION {[1..k -> Identities] : k \in 0..NumNodes}

RECURSIVE JoinLines(_)
\* "\n".join(inventory)
JoinLines(inv) ==
  IF inv = << >> THEN << >>
  ELSE IF Len(inv) = 1 THEN inv[1]
  ELSE inv[1] \o << "\n" >> \o JoinLines(Tail(inv))

\* The text deploy() writes: "\n".join(inventory) + "\n".
InventoryText(inv) == JoinLines(inv) \o << "\n" >>

\* The content of a file opened with mode "w" that held old, after write(data).
OpenW_Append(old, data) == old \o data
OpenW(old, data) == data

RECURSIVE FileLines(_, _)
\* The lines of a text without their line breaks, cur being the line begun.
FileLines(text, cur) ==
  IF text = << >> THEN (IF cur = << >> THEN << >> ELSE << cur >>)
  ELSE IF Head(text) = "\n" THEN << cur >> \o FileLines(Tail(text), << >>)
  ELSE FileLines(Tail(text), Append(cur, Head(text)))

\* read_inventory(): one node identity per line, no line skipped.
read_inventory(text) == FileLines(text, << >>)

\* The variables of the commands, which the functions under check do not use.
cmdVars == << cmd, pi, inventory, faulty, tst, tstep, gres, exc, remote, unit0,
              deployVars, statusVars, localVars,
              pool, cfgExists, certFolder, remote0, invFile0, cert0, invocations >>

InitIdle ==
  /\ invocations = 1
  /\ pi = 1
  /\ inventory = << >>
  /\ faulty = {}
  /\ tst = [ph \in Phases |-> [i \in Pos |-> "none"]]
  /\ tstep = [ph \in Phases |-> [i \in Pos |-> 1]]
  /\ gres = [ph \in Phases |-> "none"]
  /\ exc = "none"
  /\ remote = [h \in Hosts |-> Absent]
  /\ unit0 = [h \in Hosts |-> FALSE]
  /\ sem = 0
  /\ maxup = 0
  /\ apiEnc = 0
  /\ apiEncFile = 0
  /\ keygens = 0
  /\ cfgCopy = FALSE
  /\ invFile = [exists |-> FALSE, nodes |-> << >>]
  /\ unreachable = {}
  /\ probe = [i \in Pos |-> "none"]
  /\ ready = << >>
  /\ reported = << >>
  /\ order = << >>
  /\ pool = [perNode |-> 1, cfgTotal |-> 1, dflt |-> 1]
  /\ localCert = [h \in Hosts |-> 0]
  /\ secrets = NoSecrets
  /\ cfgExists = TRUE
  /\ InitHistory

\* deploy(): the inventory is written over what the file held.
InventoryWrite ==
  /\ cmd = "inventory"
  /\ pc = "begin"
  /\ ret' = [text |-> OpenW(arg.prior, InventoryText(arg.inv)), back |-> << >>]
  /\ pc' = "written"
  /\ UNCHANGED << cmdVars, arg >>

\* main() of a later command: the inventory is read back.
InventoryRead ==
  /\ cmd = "inventory"
  /\ pc = "written"
  /\ ret' = [ret EXCEPT !.back = read_inventory(ret.text)]
  /\ pc' = "read"
  /\ UNCHANGED << cmdVars, arg >>

InitInventory ==
  /\ cmd = "inventory"
  /\ pc = "begin"
  /\ InitIdle
  /\ certFolder = TRUE
  /\ arg \in [inv : InventoryLists,
               prior : {<< >>, InventoryText(<< << "b" >>, << "b" >> >>)}]
  /\ ret = [text |-> arg.prior, back |-> << >>]

NextInventory == InventoryWrite \/ InventoryRead

SpecInventory == InitInventory /\ [][NextInventory]_vars

\* ---------------------------------------------------------- get_certificates
\* The file name of a cert path template is a sequence of symbols: characters
\* and the token "[node]".
TemplateSyms == {"c", "[node]"}
Templates == UNION {[1..k -> TemplateSyms] : k \in 0..MaxTemplateLen}
NodeNames == Identities \ {<< >>}
NodeSets == {S \in SUBSET NodeNames : Cardinality(S) <= NumNodes}

RECURSIVE SplitNode(_, _)
\* certs_glob.split("[node]"): the parts between the tokens, cur being the
\* part begun.
SplitNode(text, cur) ==
  IF text = << >> THEN << cur >>
  ELSE IF Head(text) = "[node]" THEN << cur >> \o SplitNode(Tail(text), << >>)
  ELSE SplitNode(Tail(text), Append(cur, Head(text)))

RECURSIVE ReplaceNode(_, _)
\* text.replace("[node]", by)
ReplaceNode(text, by) ==
  IF text = << >> THEN << >>
  ELSE (IF Head(text) = "[node]" THEN by ELSE << Head(text) >>)
         \o ReplaceNode(Tail(text), by)

RECURSIVE Matches(_, _)
\* Whether a file name matches a glob pattern, "*" standing for any characters.
Matches(name, pat) ==
  IF pat = << >> THEN name = << >>
  ELSE IF Head(pat) = "*"
    THEN Matches(name, Tail(pat)) \/ (name # << >> /\ Matches(Tail(name), pat))
    ELSE name # << >> /\ Head(name) = Head(pat) /\ Matches(Tail(name), Tail(pat))

\* certs_folder.glob(pattern)
Glob(files, pat) == {f \in files : Matches(f, pat)}

\* The index a slice bound b stands for in a sequence of n elements.
SliceIndex(b, n) ==
  IF b < 0 THEN (IF n + b < 0 THEN 0 ELSE n + b) ELSE (IF b > n THEN n ELSE b)

\* s[a:b] of Python.
PySlice(s, a, b) ==
  LET lo == SliceIndex(a, Len(s))
      hi == SliceIndex(b, Len(s))
  IN IF lo < hi THEN SubSeq(s, lo + 1, hi) ELSE << >>

\* file.name[len(before_node): -len(after_node)]
NodeNameOf(name, before, after) == PySlice(name, Len(before), 0 - Len(after))

\* Whether "before_node, after_node = parts" raises ValueError.
UnpackFails_TooFew(parts) == Len(parts) < 2
UnpackFails(parts) == Len(parts) # 2

\* The files of the cert folder: the certificate of every node of arg.nodes at
\* the template with "[node]" replaced by the node, as deploy() writes it.
CertFiles == {ReplaceNode(arg.template, n) : n \in arg.nodes}

NoCerts == [certs |-> {}, todo |-> {}, err |-> "none",
            before |-> << >>, after |-> << >>]

\* get_certificates() up to the loop: the folder check and the split.
CertsBegin ==
  /\ cmd = "certs"
  /\ pc = "begin"
  /\ IF ~certFolder
       THEN /\ ret' = [ret EXCEPT !.err = "RuntimeError"]
            /\ pc' = "raised"
       ELSE LET parts == SplitNode(arg.template, << >>) IN
            IF UnpackFails(parts)
              THEN /\ ret' = [ret EXCEPT !.err = "ValueError"]
                   /\ pc' = "raised"
              ELSE /\ ret' = [ret EXCEPT
                               !.before = parts[1], !.after = parts[2],
                               !.todo = Glob(CertFiles,
                                             ReplaceNode(arg.template, << "*" >>))]
                   /\ pc' = "loop"
  /\ UNCHANGED << cmdVars, arg >>

\* One turn of the loop over the files found, in the order glob yields them.
CertsLoop ==
  /\ cmd = "certs"
  /\ pc = "loop"
  /\ \E f \in ret.todo :
       LET node_name == NodeNameOf(f, ret.before, ret.after) IN
       ret' = [ret EXCEPT
                 !.certs = {p \in @ : p[1] # node_name} \cup {<< node_name, f >>},
                 !.todo = @ \ {f}]
  /\ UNCHANGED << pc, cmdVars, arg >>

CertsReturn ==
  /\ cmd = "certs"
  /\ pc = "loop"
  /\ ret.todo = {}
  /\ pc' = "done"
  /\ UNCHANGED << ret, cmdVars, arg >>

get_certificates == CertsBegin \/ CertsLoop \/ CertsReturn

InitCerts ==
  /\ cmd = "certs"
  /\ pc = "begin"
  /\ InitIdle
  /\ certFolder \in BOOLEAN
  /\ arg \in [template : Templates, nodes : NodeSets]
  /\ ret = NoCerts

NextCerts == get_certificates

SpecCerts == InitCerts /\ [][NextCerts]_vars

\* ------------------------------------------------------------------ claims
StepIndex(ph, name) == CHOOSE k \in 1..Len(Steps(ph)) : Steps(ph)[k] = name

\* The task of fan-out ph for position i is inside the command called name.
Inside(ph, i, name) ==
  tst[ph][i] = "run" /\ Steps(ph)[tstep[ph][i]] = name

\* The command called name of the task of fan-out ph for position i has succeeded.
Passed(ph, i, name) ==
  tst[ph][i] = "ok" \/ (tst[ph][i] # "none" /\ tstep[ph][i] > StepIndex(ph, name))

Uploading == {i \in Active : Inside("install", i, "copy")}

Returned == pc \in {"done", "raised", "exited"}

\* C1: in deploy() the number of nodes inside node.copy() of the archive is at
\* most max_parallel_uploads when that is positive and at most the number of
\* nodes when it is 0.
C1_UploadLimit ==
  Cardinality(Uploading) <= (IF maxup > 0 THEN maxup ELSE N)

\* Limit 1, one node uploading while another waits for the slot.
C1_Witness ==
  /\ maxup = 1
  /\ \E i, j \in Active :
       i # j /\ Inside("install", i, "copy") /\ Inside("install", j, "acquire")

\* C2: when the install sequence of one node fails, every other node whose own
\* install steps all succeeded is still sent systemctl enable and systemctl
\* start by the time the invocation has ended.
C2_FailureIsolation ==
  (cmd = "install" /\ pc = "exited" /\ \E i \in Active : tst["install"][i] = "fail")
    => \A m \in Active :
         tst["install"][m] = "ok" => tst["enable"][m] # "none" /\ tst["start"][m] # "none"

\* C3: start, stop, enable and disable return only after the command of every
\* node has finished, and no node's command is cancelled or left unfinished.
C3_AllFinishedOnReturn ==
  (cmd \in LifecyclePhases /\ Returned) => \A i \in Active : Finished(tst[cmd][i])

\* C4: the failure of one node's command is never raised out of the fleet
\* operation to its caller.
C4_NeverRaised ==
  (\E ph \in Phases : \E i \in Active : tst[ph][i] = "fail") => exc = "none"

C6_RemoveIsolation ==
  /\ pc \in {"unlink", "done"} =>
       \A i \in Active :
         /\ Finished(tst["remove"][i])
         /\ i \notin faulty =>
              /\ tst["remove"][i] = "ok"
              /\ ~remote[inventory[i]].unit
              /\ ~remote[inventory[i]].root
              /\ ~remote[inventory[i]].storage
  /\ pc = "raised" => gres["remove"] = "none"

\* remove() has returned, the removal failed on one node and succeeded on another.
C6_Witness ==
  /\ pc = "done"
  /\ \E i, j \in Active : tst["remove"][i] = "fail" /\ tst["remove"][j] = "ok"

\* C7: on a node whose unit file is absent when uninstall begins the removal
\* goes on to daemon-reload and to the deletion of the install root and of the
\* storage directory, and the absence makes remove() raise nothing.
C7_AbsentUnitFile ==
  /\ \A i \in Active :
       (~unit0[inventory[i]] /\ tst["remove"][i] # "none") =>
         /\ Passed("remove", i, "rm_unit") \/ Inside("remove", i, "rm_unit")
         /\ pc \in {"unlink", "done"} =>
              ~remote[inventory[i]].root /\ ~remote[inventory[i]].storage
  /\ faulty = {} => pc # "raised"

\* remove() has returned after removing a node that had no unit file.
C7_Witness ==
  /\ pc = "done"
  /\ exc = "none"
  /\ \E i \in Active :
       ~unit0[inventory[i]] /\ tst["remove"][i] = "ok" /\ ~remote[inventory[i]].root

\* C8: when remove() returns neither the config copy nor the inventory file
\* exists, and the inventory file is not deleted before the removal task of
\* every node has ended.
C8_LocalStateRemoved ==
  /\ (cmd = "uninstall" /\ pc = "done") => ~cfgCopy /\ ~invFile.exists
  /\ (cmd = "uninstall" /\ pc # "done" /\ exc = "none" /\ pc # "exited") => invFile.exists
  /\ ~invFile.exists => \A i \in Active : Finished(tst["remove"][i])

\* remove() has returned with the files gone although the removal failed on a node.
C8_Witness ==
  /\ pc = "done"
  /\ ~cfgCopy
  /\ ~invFile.exists
  /\ \E i \in Active : tst["remove"][i] = "fail"

\* C9: get_key_enc() is called once, before any install task starts, and every
\* node past the push of the encrypted API key holds the value that was
\* generated, which is the value in the local api_key_enc file.
C9_OneKey ==
  /\ keygens <= 1
  /\ (\E i \in Active : tst["install"][i] # "none") => keygens = 1
  /\ \A i \in Active :
       Passed("install", i, "tee_api_key_enc") =>
         remote[inventory[i]].apikey = apiEnc /\ apiEnc = apiEncFile /\ apiEnc # 0

\* Two nodes hold the pushed key.
C9_Witness ==
  \E i, j \in Active :
    i # j /\ Passed("install", i, "tee_api_key_enc") /\ Passed("install", j, "tee_api_key_enc")

Lines(l) == {k \in 1..Len(reported) : reported[k].line = l}

\* C10: a status probe over K nodes of which exactly one is unreachable logs
\* exactly K outcomes, one per node: one captured error, that of the
\* unreachable node, and K-1 health results; status() does not raise.
C10_StatusOutcomes ==
  (cmd = "status" /\ N > 0 /\ Cardinality(unreachable) = 1) =>
    /\ pc # "raised"
    /\ pc = "done" =>
         /\ Len(reported) = N
         /\ \A i \in Active : \E k \in 1..Len(reported) : reported[k].node = inventory[i]
         /\ Cardinality(Lines("error")) = 1
         /\ \A k \in Lines("error") : \E i \in unreachable : reported[k].node = inventory[i]
         /\ Cardinality(Lines("RUN") \cup Lines("NOT RUN")) = N - 1

\* status() has returned after probing two or more nodes, one of them unreachable.
C10_Witness ==
  /\ cmd = "status"
  /\ pc = "done"
  /\ N >= 2
  /\ Cardinality(unreachable) = 1
  /\ Lines("error") # {}

\* C11: while the pool of a status probe is in use, at most
\* cfg.max_conn_per_node connections are open to any one node and at most
\* cfg.max_conn_total in total.
C11_ConnectionLimits ==
  cmd = "status" =>
    /\ \A h \in Hosts : Cardinality(ConnsTo(h)) <= pool.perNode
    /\ Cardinality(Conns) <= pool.cfgTotal

\* C12: status() logs the outcomes in the order the probes ended, not in the
\* order of the node list, and an outcome that is ready is logged without
\* waiting for the probe of any other node.
C12_CompletionOrder ==
  cmd = "status" =>
    /\ Len(reported) <= Len(order)
    /\ \A k \in 1..Len(reported) : reported[k].node = inventory[order[k]]
    /\ (pc = "loop" /\ ready # << >>) => ENABLED StatusReport

\* The outcome of a later node of the list is logged while the probe of an
\* earlier node is still running.
C12_Witness ==
  \E i, j \in Active :
    /\ i < j
    /\ probe[i] \in {"run", "conn"}
    /\ \E k \in 1..Len(reported) : reported[k].node = inventory[j]

NewLines(text) == Cardinality({k \in 1..Len(text) : text[k] = "\n"})

\* C13 as stated: for every ordered list of node identities the inventory
\* written by install and read back is the same list.
C13_RoundTrip ==
  (cmd = "inventory" /\ pc = "read") => ret.back = arg.inv

\* C13 as amended: for every ordered list of node identities that is not empty,
\* the file holds one identity per line with a trailing line break and nothing
\* of its prior content, and reading it back yields the same list.
C13_RoundTripNonEmpty ==
  (cmd = "inventory" /\ arg.inv # << >>) =>
    /\ pc \in {"written", "read"} =>
         /\ ret.text[Len(ret.text)] = "\n"
         /\ NewLines(ret.text) = Len(arg.inv)
    /\ pc = "read" => ret.back = arg.inv

\* A list of two or more identities has been written over a prior inventory
\* and read back.
C13_Witness ==
  /\ cmd = "inventory"
  /\ pc = "read"
  /\ Len(arg.inv) >= 2
  /\ arg.inv[1] # arg.inv[2]
  /\ arg.prior # << >>
  /\ ret.back = arg.inv


TokenCount(text) == Cardinality({k \in 1..Len(text) : text[k] = "[node]"})

\* C15: for a template with exactly one "[node]" token, whatever its prefix and
\* suffix, get_certificates() returns the mapping of each node whose
\* certificate file exists, and nothing else, to that node's file.
C15_CertificatesOfNodes ==
  (cmd = "certs" /\ pc = "done") =>
    ret.certs = {<< n, ReplaceNode(arg.template, n) >> : n \in arg.nodes}

\* C16: get_certificates() raises, and returns no mapping, whenever the
\* template does not contain exactly one "[node]" token; it returns only for a
\* template with exactly one.
C16_TokenCountChecked ==
  cmd = "certs" =>
    /\ (pc # "begin" /\ TokenCount(arg.template) # 1) =>
         pc = "raised" /\ ret.err # "none" /\ ret.certs = {}
    /\ pc \in {"loop", "done"} => TokenCount(arg.template) = 1

\* A template with two tokens in an existing folder has been refused.
C16_Witness ==
  /\ cmd = "certs"
  /\ certFolder
  /\ TokenCount(arg.template) = 2
  /\ arg.nodes # {}
  /\ pc = "raised"
  /\ ret.err = "ValueError"


\* C17: an install leaves the certificate of a node that already has one at
\* its resolved cert path as it was; a new one is generated only for a node
\* that has none.
C17_NoRotation ==
  cmd = "install" =>
    \A h \in Hosts : cert0[h] # 0 => localCert[h] = cert0[h]


\* No SSH command, upload or RPC call has been issued.
NoRemoteOperation ==
  /\ \A ph \in Phases : \A i \in Pos : tst[ph][i] = "none"
  /\ \A i \in Pos : probe[i] = "none"
  /\ Conns = {}
  /\ remote = remote0

\* C18: with the config file missing main() raises before any SSH command,
\* upload or RPC call of any subcommand; with the cert template folder missing
\* status() raises before a connection is opened or a probe is sent.
C18_FatalStartupErrors ==
  /\ ~cfgExists =>
       /\ NoRemoteOperation
       /\ pc \in {"main", "raised", "exited"}
       /\ pc # "main" => exc = "FileExistsError"
  /\ (cmd = "status" /\ cfgExists /\ ~certFolder) =>
       /\ NoRemoteOperation
       /\ reported = << >>
       /\ pc \in {"main", "begin", "raised", "exited"}
       /\ pc \in {"raised", "exited"} => exc = "RuntimeError"

\* install over two nodes has been refused for its missing config file.
C18_Witness ==
  /\ cmd = "install"
  /\ N = 2
  /\ ~cfgExists
  /\ pc = "raised"
  /\ exc = "FileExistsError"

\* A host without unit file, install root, storage, enabled or running service.
IsAbsent(r) == ~r.unit /\ ~r.root /\ ~r.storage /\ ~r.enabled /\ ~r.active

\* C19: a successful install takes every node from absent to enabled and
\* started; start and stop change only the running toggle of a host, enable and
\* disable only the enabled toggle, and set it on every node when they succeed;
\* an uninstall takes a node whose removal steps succeeded from any lifecycle
\* state to absent.
C19_LifecycleStateMachine ==
  /\ (cmd = "install" /\ pc = "done") =>
       \A i \in Active :
         /\ remote0[inventory[i]] = Absent
         /\ remote[inventory[i]].unit /\ remote[inventory[i]].root
         /\ remote[inventory[i]].storage
         /\ remote[inventory[i]].enabled /\ remote[inventory[i]].active
  /\ cmd \in {"start", "stop"} =>
       /\ \A h \in Hosts : [remote[h] EXCEPT !.active = remote0[h].active] = remote0[h]
       /\ pc = "done" => \A i \in Active : remote[inventory[i]].active = (cmd = "start")
  /\ cmd \in {"enable", "disable"} =>
       /\ \A h \in Hosts : [remote[h] EXCEPT !.enabled = remote0[h].enabled] = remote0[h]
       /\ pc = "done" => \A i \in Active : remote[inventory[i]].enabled = (cmd = "enable")
  /\ cmd = "uninstall" =>
       \A i \in Active : tst["remove"][i] = "ok" => IsAbsent(remote[inventory[i]])

\* An uninstall has taken an enabled, running node and a disabled, stopped node
\* to absent.
C19_Witness ==
  /\ cmd = "uninstall"
  /\ pc = "done"
  /\ N = 2
  /\ remote0[inventory[1]] = Installed(TRUE, TRUE)
  /\ remote0[inventory[2]] = Installed(FALSE, FALSE)
  /\ \A i \in Active : tst["remove"][i] = "ok" /\ IsAbsent(remote[inventory[i]])


\* C20: in remove() the removal of a node's unit file is issued only after that
\* node's systemctl disable and systemctl stop have both finished.
C20_DisableStopBeforeRemoval ==
  cmd = "uninstall" =>
    \A i \in Active :
      tst["remove"][i] # "none" =>
        Finished(tst["disable"][i]) /\ Finished(tst["stop"][i])


\* C21: in deploy() systemctl enable is issued to a node only after the
\* install sequence of every node has ended, and systemctl start only after
\* the enable command of every node has finished.
C21_EnableStartOrder ==
  cmd = "install" =>
    /\ (\E i \in Active : tst["enable"][i] # "none") =>
         \A j \in Active : Finished(tst["install"][j])
    /\ (\E i \in Active : tst["start"][i] # "none") =>
         \A j \in Active : Finished(tst["install"][j]) /\ Finished(tst["enable"][j])

\* The start command of a node is running after two nodes were installed and
\* enabled.
C21_Witness ==
  /\ cmd = "install"
  /\ N = 2
  /\ \E i \in Active : tst["start"][i] = "run"
  /\ \A j \in Active : tst["install"][j] = "ok" /\ tst["enable"][j] = "ok"


\* The slots of the upload semaphore that are held.
HeldSlots == SemaphoreInit(maxup, N) - sem

\* C22: once the semaphore exists, the number of held upload slots equals the
\* number of nodes whose archive copy is in progress, so a slot is held exactly
\* during the copy, whether it ends by success or by failure, and never during
\* another step; no slot is held once every install task has ended.
C22_SlotHeldDuringCopy ==
  (cmd = "install" /\ pc \notin {"main", "begin"}) =>
    /\ HeldSlots = Cardinality(Uploading)
    /\ (\A i \in Active : tst["install"][i] \in {"ok", "fail", "cancelled"}) =>
         HeldSlots = 0

\* With limit 1, one node uploads while another node, which has given its slot
\* back, runs the embedded installer.
C22_Witness ==
  /\ cmd = "install"
  /\ maxup = 1
  /\ HeldSlots = 1
  /\ \E i, j \in Active :
       /\ Inside("install", i, "copy")
       /\ Inside("install", j, "bash_install")

\* What the install sequence of host h has left behind, in the order of the
\* steps: each effect is there only when the effects of the steps before are.
InstallOrderKept(h) ==
  LET r       == remote[h]
      secured == secrets.certSecured[h]
      keyed   == localCert[h] # cert0[h]
      pushed  == r.apikey = apiEnc /\ apiEnc > 0
  IN /\ r.storage => r.root
     /\ r.temp => r.storage
     /\ secured => r.storage /\ (r.temp \/ pushed)
     /\ keyed => secured
     /\ secrets.tempKey[h] => keyed /\ ~pushed
     /\ pushed => keyed /\ ~secrets.tempKey[h]
     /\ (secured /\ ~r.temp) => pushed
     /\ r.unit => pushed /\ ~r.temp

\* A failed install task stays failed at its step and its host is left alone.
FailedStaysFailed ==
  \A i \in Active :
    (cmd = "install" /\ tst["install"][i] = "fail") =>
      /\ tst'["install"][i] = "fail"
      /\ tstep'["install"][i] = tstep["install"][i]
      /\ remote'[inventory[i]] = remote[inventory[i]]
      /\ secrets'.tempKey[inventory[i]] = secrets.tempKey[inventory[i]]
      /\ localCert'[inventory[i]] = localCert[inventory[i]]

\* C23: the steps of a node's install sequence take effect in the order dirs,
\* upload, installer, chown and chmod, secrets dir, cert and key, push of cert,
\* key and encrypted API key, removal of the temporary key and archive, service
\* unit, daemon-reload; a step is issued only after the step before succeeded,
\* and after a failed step no later step is issued for that node.
C23_InstallStepOrder ==
  /\ [](cmd = "install" => \A i \in Active : InstallOrderKept(inventory[i]))
  /\ [][FailedStaysFailed]_vars

\* A node has passed every step up to the service unit while the install of
\* another node has failed.
C23_Witness ==
  /\ cmd = "install"
  /\ \E i, j \in Active :
       /\ remote[inventory[i]].unit
       /\ tst["install"][j] = "fail"
       /\ remote[inventory[j]].temp


\* C24: in deploy() the API key and its encrypted form are written only when
\* make_secure has been called on their paths, and the key and certificate of a
\* node are written by make_cert_and_key only when make_secure has been called
\* on the node's cert path and temporary key path.
C24_SecuredBeforeWritten ==
  cmd = "install" =>
    /\ keygens > 0 => secrets.apiSecured
    /\ \A h \in Hosts :
         (localCert[h] # cert0[h] \/ secrets.tempKey[h]) => secrets.certSecured[h]

\* The API key is written and the key of a node is generated, both on secured
\* paths.
C24_Witness ==
  /\ cmd = "install"
  /\ keygens > 0
  /\ secrets.apiSecured
  /\ \E h \in Hosts :
       localCert[h] # cert0[h] /\ secrets.tempKey[h] /\ secrets.certSecured[h]


\* C25: the install tasks of one invocation share nothing but the upload
\* semaphore, whatever the node list: with every session working no install
\* task fails, as no task finds a local file removed by another task.
C25_NoSharedFiles ==
  (cmd = "install" /\ faulty = {}) =>
    \A i \in Active : tst["install"][i] # "fail"


\* C26: when the install sequence of a node has succeeded, its temporary key
\* file and its remote temporary archive are gone; the key file is deleted only
\* after the key has been pushed to the node, and the archive is removed only
\* after the embedded installer has run from it.
C26_TemporariesRemoved ==
  cmd = "install" =>
    \A i \in Active :
      LET h == inventory[i] IN
      /\ tst["install"][i] = "ok" => ~secrets.tempKey[h] /\ ~remote[h].temp
      /\ (localCert[h] # cert0[h] /\ ~secrets.tempKey[h]) =>
           Passed("install", i, "tee_key")
      /\ (~remote[h].temp /\ Passed("install", i, "copy")) =>
           Passed("install", i, "bash_install")

\* The install sequence of a node has succeeded: it had a temporary key and
\* a temporary archive, and both are gone.
C26_Witness ==
  /\ cmd = "install"
  /\ \E i \in Active :
       /\ tst["install"][i] = "ok"
       /\ localCert[inventory[i]] # cert0[inventory[i]]
       /\ ~secrets.tempKey[inventory[i]]
       /\ ~remote[inventory[i]].temp


\* The install task of position i waits for an upload slot.
Waiting(i) == Inside("install", i, "acquire")

\* The install task of position i has got its upload slot.
Acquired(i) ==
  tst["install"][i] # "none"
    /\ tstep["install"][i] > StepIndex("install", "acquire")

\* C27: when every command returns and the scheduler is fair, every install
\* task that requests an upload slot eventually acquires it, and deploy()
\* eventually terminates.
C27_SlotEventuallyAcquired ==
  /\ \A i \in Pos : Waiting(i) ~> Acquired(i)
  /\ <>Returned


\* A remote command or an RPC probe has been issued by this invocation.
Issued ==
  \/ \E ph \in Phases : \E i \in Pos : tst[ph][i] # "none"
  \/ \E i \in Pos : probe[i] # "none"

\* The inventory file changes only by an install that writes its whole node
\* list and by an uninstall that deletes the file.
InventoryWrittenByInstall ==
  invFile' # invFile =>
    \/ cmd = "install" /\ invFile' = [exists |-> TRUE, nodes |-> inventory]
    \/ cmd = "uninstall" /\ ~invFile'.exists

\* C28: across invocations, start, stop, uninstall and status issue remote
\* commands and probes only to the node list the inventory file holds, which
\* is the list of the last install that wrote it; when the file is gone, as
\* after an uninstall that returned, they issue none.
C28_PersistedTargets ==
  /\ []((cmd \in {"start", "stop", "uninstall", "status"} /\ Issued) =>
          /\ invFile0.exists
          /\ inventory = invFile0.nodes)
  /\ [][InventoryWrittenByInstall]_vars

\* A start, stop, uninstall or status after an uninstall of an installed fleet
\* has been refused for the missing inventory file.
C28_Witness ==
  /\ invocations = 2
  /\ cmd \in {"start", "stop", "uninstall", "status"}
  /\ pc = "raised"
  /\ exc = "FileNotFoundError"
  /\ ~Issued
  /\ \E h \in Fleet : remote[h].apikey >= 0 /\ ~remote[h].unit

====
